---- MODULE Spec2Model ----
(***************************************************************************)
(* Model of the UDP layer of net-work-lab (src/src/udp.c).                 *)
(*                                                                         *)
(* One stack instance is modelled in full: its interface address           *)
(* net_if_ip and its port table udp_table.  Datagrams reach it from the    *)
(* network; a datagram in flight is either the output of udp_send run on   *)
(* some stack (this one or a peer with another address), possibly with one *)
(* bit flipped in transit, or a datagram built by hand whose length field  *)
(* does not describe it, or a raw buffer shorter than a UDP header.        *)
(*                                                                         *)
(* Memory is modelled byte by byte.  A uint16_t lives in memory in host    *)
(* order, which is little-endian (the code's unconditional swap16 before   *)
(* every store of a wire field fixes that choice).                         *)
(***************************************************************************)
EXTENDS Integers, Sequences, FiniteSets, TLC

\* ------------------------------------------------------------------ bounds
\* longest payload handed to udp_send
MaxLen == 2
\* number of entries the port table can hold
MapMaxSize == 2

\* ------------------------------------------------------- program constants
\* sizeof(udp_hdr_t)
UDP_HDR_LEN == 8
\* sizeof(ip_hdr_t)
IP_HDR_LEN == 20
\* sizeof(udp_peso_hdr_t)
PESO_HDR_LEN == 12
\* NET_PROTOCOL_UDP
NET_PROTOCOL_UDP == 17
\* ICMP_CODE_PORT_UNREACH
ICMP_CODE_PORT_UNREACH == 3

\* ------------------------------------------------------------ input domains
NULL == "NULL"
Handlers == {"h1", "h2"}
Ports == {7, 53, 12345}
\* 12345 = 0x3039; 257 = 0x0101 reads the same in either byte order
SrcPorts == {12345, 257}
\* NET_IF_IP, the configured address of this stack's interface
NET_IF_IP == <<192, 168, 1, 1>>
\* the addresses in the network: this stack's and a peer's
IPs == {NET_IF_IP, <<10, 0, 0, 255>>}
\* payloads: the first n bytes of "hijk..." and n bytes 0xFF, n up to MaxLen,
\* and ZeroSumPayload
\* two bytes that bring the checksum of a datagram from port 12345 to port 53
\* between 192.168.1.1 and 10.0.0.255 to zero
ZeroSumPayload == <<2, 196>>
Payloads == {[i \in 1..n |-> 103 + i] : n \in 0..MaxLen}
            \cup {[i \in 1..n |-> 255] : n \in 1..MaxLen}
            \cup {ZeroSumPayload}
\* buffers of fewer than UDP_HDR_LEN bytes
ShortBufs == {[i \in 1..n |-> b] : n \in 0..(UDP_HDR_LEN - 1), b \in {0, 255}}
\* the byte lying behind the data of a transmit / receive buffer
TxTail == <<90>>
RxTail == <<165>>

\* ------------------------------------------------------- integers and bytes
\* swap16 macro: exchanges the two bytes of a 16-bit value
swap16(x) == (x % 256) * 256 + ((x \div 256) % 256)

\* a uint16_t as it lies in memory (host order, low byte first)
Store16(v) == <<v % 256, (v \div 256) % 256>>
Load16(b) == b[1] + 256 * b[2]

RECURSIVE SumWords(_, _)
SumWords(b, i) ==
    IF i > Len(b) THEN 0
    ELSE IF i = Len(b) THEN b[i]
    ELSE b[i] + 256 * b[i + 1] + SumWords(b, i + 2)

RECURSIVE Fold16(_)
Fold16(s) == IF s >= 65536 THEN Fold16((s % 65536) + (s \div 65536)) ELSE s

\* checksum16: one's-complement sum of the 16-bit words of a byte region
checksum16(b) == 65535 - Fold16(SumWords(b, 1))

\* ------------------------------------------------------------ packet buffer
\* buf_t: payload is the backing array, data the index of the first byte in
\* use, len the number of bytes in use.
MkBuf(head, body, tail) ==
    [payload |-> head \o body \o tail, data |-> Len(head) + 1, len |-> Len(body)]

buf_add_header(buf, n) ==
    IF buf.data - n < 1 THEN buf
    ELSE [buf EXCEPT !.data = @ - n, !.len = @ + n]

buf_remove_header(buf, n) ==
    IF buf.len < n THEN buf
    ELSE [buf EXCEPT !.data = @ + n, !.len = @ - n]

buf_add_padding(buf, n) ==
    IF buf.data + buf.len + n - 1 > Len(buf.payload) THEN buf
    ELSE [buf EXCEPT
            !.payload = SubSeq(@, 1, buf.data + buf.len - 1) \o [i \in 1..n |-> 0]
                        \o SubSeq(@, buf.data + buf.len + n, Len(@)),
            !.len = @ + n]

buf_remove_padding(buf, n) ==
    IF buf.len < n THEN buf ELSE [buf EXCEPT !.len = @ - n]

\* the first n bytes at buf->data
BufRead(buf, n) == SubSeq(buf.payload, buf.data, buf.data + n - 1)
\* the n bytes that start off bytes behind buf->data
BufReadAt(buf, off, n) == SubSeq(buf.payload, buf.data + off, buf.data + off + n - 1)
\* memcpy(buf->data + off, bytes, Len(bytes))
BufWriteAt(buf, off, bytes) ==
    [buf EXCEPT !.payload =
        SubSeq(@, 1, buf.data + off - 1) \o bytes
        \o SubSeq(@, buf.data + off + Len(bytes), Len(@))]
\* the bytes in use
BufBytes(buf) == BufRead(buf, buf.len)

\* ---------------------------------------------------------------- port map
\* map_t keyed by port: a function from the ports in use to their handlers
map_get(map, key) == IF key \in DOMAIN map THEN map[key] ELSE NULL

\* 0 on success, -1 when a new entry is needed and the map is full
map_set(map, key, value) ==
    IF key \in DOMAIN map
    THEN [map |-> [map EXCEPT ![key] = value], ret |-> 0]
    ELSE IF Cardinality(DOMAIN map) >= MapMaxSize
    THEN [map |-> map, ret |-> -1]
    ELSE [map |-> [k \in DOMAIN map \cup {key} |-> IF k = key THEN value ELSE map[k]],
          ret |-> 0]

map_delete(map, key) == [k \in DOMAIN map \ {key} |-> map[k]]

\* map_init: the empty map
map_init == [k \in {} |-> NULL]

\* ------------------------------------------------------------ udp_checksum
\* slip: the length field counts the pseudo header too
udp_peso_hdr_counts_itself(len, src_ip, dst_ip) ==
    src_ip \o dst_ip \o <<0, NET_PROTOCOL_UDP>> \o Store16(swap16(len % 65536))

\* udp_peso_hdr_t for a buffer that holds the pseudo header and len - 12
\* more bytes
udp_peso_hdr(len, src_ip, dst_ip) ==
    src_ip \o dst_ip \o <<0, NET_PROTOCOL_UDP>>
    \o Store16(swap16((len - PESO_HDR_LEN) % 65536))

\* the pseudo header written over the 12 bytes in front of the UDP header
udp_checksum_peso(buf, src_ip, dst_ip) ==
    LET b2 == buf_remove_header(buf_add_header(buf, IP_HDR_LEN),
                                IP_HDR_LEN - PESO_HDR_LEN)
    IN BufWriteAt(b2, 0, udp_peso_hdr(b2.len, src_ip, dst_ip))

\* slip: the padding byte stays part of the buffer
udp_checksum_restore_keeps_padding(buf, ip_hdr, paddled) ==
    buf_remove_header(
        BufWriteAt(buf_add_header(buf, UDP_HDR_LEN), 0, ip_hdr), IP_HDR_LEN)

\* slip: the saved IP header is not copied back
udp_checksum_restore_no_memcpy(buf, ip_hdr, paddled) ==
    LET b7 == buf_remove_header(buf_add_header(buf, UDP_HDR_LEN), IP_HDR_LEN)
    IN IF paddled THEN buf_remove_padding(b7, 1) ELSE b7

\* the saved IP header put back, header and padding taken off again
udp_checksum_restore(buf, ip_hdr, paddled) ==
    LET b7 == buf_remove_header(
                  BufWriteAt(buf_add_header(buf, UDP_HDR_LEN), 0, ip_hdr), IP_HDR_LEN)
    IN IF paddled THEN buf_remove_padding(b7, 1) ELSE b7

\* slip: the sum covers the pseudo header and the UDP header only
udp_checksum_sum_headers_only(buf, ip_hdr) ==
    LET paddled == buf.len % 2 = 1
        b4 == IF paddled THEN buf_add_padding(buf, 1) ELSE buf
    IN [checksum |-> checksum16(BufRead(b4, PESO_HDR_LEN + UDP_HDR_LEN)),
        buf |-> udp_checksum_restore(b4, ip_hdr, paddled)]

\* slip: no padding byte; the sum stops at the last whole 16-bit word
udp_checksum_sum_drops_odd_byte(buf, ip_hdr) ==
    [checksum |-> checksum16(BufRead(buf, 2 * (buf.len \div 2))),
     buf |-> udp_checksum_restore(buf, ip_hdr, FALSE)]

\* padding when the length is odd, checksum16 over pseudo header and
\* datagram, restoration
udp_checksum_sum(buf, ip_hdr) ==
    LET paddled == buf.len % 2 = 1
        b4 == IF paddled THEN buf_add_padding(buf, 1) ELSE buf
    IN [checksum |-> checksum16(BufBytes(b4)),
        buf |-> udp_checksum_restore(b4, ip_hdr, paddled)]

\* the buffer after the call and the value returned
udp_checksum(buf, src_ip, dst_ip) ==
    udp_checksum_sum(udp_checksum_peso(buf, src_ip, dst_ip),
                     BufRead(buf_add_header(buf, IP_HDR_LEN), IP_HDR_LEN))

\* ------------------------------------------------------------------ udp_in
\* field offsets of udp_hdr_t: src_port16 0, dst_port16 2, total_len16 4,
\* checksum16 6
\* slip: a buffer one byte short of a header passes
udp_in_too_short_off_by_one(buf) == buf.len < UDP_HDR_LEN - 1

udp_in_too_short(buf) == buf.len < UDP_HDR_LEN

\* slip: the checksum field is left as received
udp_in_zero_checksum_skipped(buf) == buf

\* udp_hdr->checksum16 = 0
udp_in_zero_checksum(buf) == BufWriteAt(buf, 6, Store16(0))

\* the received checksum saved, the field zeroed, the checksum recomputed
udp_in_verify(buf, src_ip, local_ip) ==
    [saved |-> Load16(BufReadAt(buf, 6, 2)),
     cs_in |-> udp_in_zero_checksum(buf),
     sum |-> udp_checksum(udp_in_zero_checksum(buf), src_ip, local_ip)]

\* slip: the comparison never fails
udp_in_mismatch_ignored(saved, computed) == FALSE

\* if (checksum16 != udp_checksum(...)) return;
udp_in_mismatch(saved, computed) == saved # computed

\* udp_hdr->checksum16 = checksum16
udp_in_restore_checksum(buf, saved) == BufWriteAt(buf, 6, Store16(saved))

\* swap16(udp_hdr->dst_port16)
udp_in_dst_port(buf) == swap16(Load16(BufReadAt(buf, 2, 2)))

\* the buffer handed to icmp_unreachable: the IP header back in front
udp_in_unreachable(buf) == buf_add_header(buf, IP_HDR_LEN)

\* slip: the UDP header stays in front of the payload
udp_in_payload_keeps_header(buf) == buf

\* slip: the payload length is taken from the header's length field
udp_in_payload_trusts_header_len(buf) ==
    IF swap16(Load16(BufReadAt(buf, 4, 2))) \in UDP_HDR_LEN..buf.len
    THEN [buf_remove_header(buf, UDP_HDR_LEN)
            EXCEPT !.len = swap16(Load16(BufReadAt(buf, 4, 2))) - UDP_HDR_LEN]
    ELSE buf_remove_header(buf, UDP_HDR_LEN)

\* the buffer handed to the handler: the UDP header taken off
udp_in_payload(buf) == buf_remove_header(buf, UDP_HDR_LEN)

\* the port argument of the handler call: udp_hdr->src_port16
udp_in_src_port(buf) == Load16(BufReadAt(buf, 0, 2))

\* (*handler)(buf->data, buf->len, src_ip, udp_hdr->src_port16)
udp_in_call(handler, payload, src_ip, src_port) ==
    [handler |-> handler, data |-> BufBytes(payload), len |-> payload.len,
     src_ip |-> src_ip, src_port |-> src_port]

\* slip: no return after icmp_unreachable; the call through the handler
\* pointer follows
udp_in_dispatch_falls_through(buf, handler, src_ip, v) ==
    [outcome |-> IF handler = NULL THEN "unreachable_notified" ELSE "dispatched",
     buf |-> udp_in_payload(buf),
     calls |-> <<udp_in_call(handler, udp_in_payload(buf), src_ip,
                             udp_in_src_port(buf))>>,
     icmp |-> IF handler = NULL
              THEN <<[buf |-> BufBytes(udp_in_unreachable(buf)), dst_ip |-> src_ip,
                      code |-> ICMP_CODE_PORT_UNREACH]>>
              ELSE <<>>,
     checksum_runs |-> 1, saved |-> v.saved, computed |-> v.sum.checksum,
     dst_port |-> udp_in_dst_port(buf), cs_in |-> v.cs_in, cs_out |-> v.sum.buf]

\* from the registry lookup on: buf holds the datagram with its checksum
udp_in_dispatch(buf, handler, src_ip, v) ==
    IF handler = NULL
    THEN [outcome |-> "unreachable_notified", buf |-> udp_in_unreachable(buf),
          calls |-> <<>>,
          icmp |-> <<[buf |-> BufBytes(udp_in_unreachable(buf)), dst_ip |-> src_ip,
                      code |-> ICMP_CODE_PORT_UNREACH]>>,
          checksum_runs |-> 1, saved |-> v.saved, computed |-> v.sum.checksum,
          dst_port |-> udp_in_dst_port(buf), cs_in |-> v.cs_in, cs_out |-> v.sum.buf]
    ELSE [outcome |-> "dispatched", buf |-> udp_in_payload(buf),
          calls |-> <<udp_in_call(handler, udp_in_payload(buf), src_ip,
                                  udp_in_src_port(buf))>>,
          icmp |-> <<>>,
          checksum_runs |-> 1, saved |-> v.saved, computed |-> v.sum.checksum,
          dst_port |-> udp_in_dst_port(buf), cs_in |-> v.cs_in, cs_out |-> v.sum.buf]

\* slip: the received checksum is put back before the comparison
udp_in_checked_restores_first(v, src_ip, table) ==
    IF udp_in_mismatch(v.saved, v.sum.checksum)
    THEN [outcome |-> "dropped_checksum",
          buf |-> udp_in_restore_checksum(v.sum.buf, v.saved), calls |-> <<>>,
          icmp |-> <<>>, checksum_runs |-> 1, saved |-> v.saved,
          computed |-> v.sum.checksum, dst_port |-> -1,
          cs_in |-> v.cs_in, cs_out |-> v.sum.buf]
    ELSE udp_in_dispatch(udp_in_restore_checksum(v.sum.buf, v.saved),
                         map_get(table, udp_in_dst_port(v.sum.buf)), src_ip, v)

\* from the checksum comparison on
udp_in_checked(v, src_ip, table) ==
    IF udp_in_mismatch(v.saved, v.sum.checksum)
    THEN [outcome |-> "dropped_checksum", buf |-> v.sum.buf, calls |-> <<>>,
          icmp |-> <<>>, checksum_runs |-> 1, saved |-> v.saved,
          computed |-> v.sum.checksum, dst_port |-> -1,
          cs_in |-> v.cs_in, cs_out |-> v.sum.buf]
    ELSE udp_in_dispatch(udp_in_restore_checksum(v.sum.buf, v.saved),
                         map_get(table, udp_in_dst_port(v.sum.buf)), src_ip, v)

\* slip: the entry of the destination port is taken out of the table
udp_in_table_unregisters(table, buf) ==
    IF udp_in_too_short(buf) THEN table
    ELSE map_delete(table, udp_in_dst_port(buf))

\* udp_table after the call: map_get is the only use udp_in makes of it
udp_in_table(table, buf) == table

\* what the call does: its outcome, the buffer it leaves, the handler calls
\* and icmp_unreachable calls it makes, the number of udp_checksum runs, the
\* received and the recomputed checksum, the port looked up, the buffer
\* udp_checksum was given and the buffer it left
udp_in(buf, src_ip, table, local_ip) ==
    IF udp_in_too_short(buf)
    THEN [outcome |-> "dropped_short", buf |-> buf, calls |-> <<>>, icmp |-> <<>>,
          checksum_runs |-> 0, saved |-> -1, computed |-> -1, dst_port |-> -1,
          cs_in |-> buf, cs_out |-> buf]
    ELSE udp_in_checked(udp_in_verify(buf, src_ip, local_ip), src_ip, table)

\* ----------------------------------------------------------------- udp_out
\* slip: the length field is stored in host order
udp_out_hdr_len_host_order(src_port, dst_port, len, checksum) ==
    Store16(swap16(src_port)) \o Store16(swap16(dst_port))
    \o Store16(len % 65536) \o Store16(checksum)

\* udp_hdr_t with the given checksum, for a buffer of len bytes
udp_out_hdr(src_port, dst_port, len, checksum) ==
    Store16(swap16(src_port)) \o Store16(swap16(dst_port))
    \o Store16(swap16(len % 65536)) \o Store16(checksum)

\* the header with checksum 0 in front of the payload
udp_out_prepare(buf, src_port, dst_port) ==
    BufWriteAt(buf_add_header(buf, UDP_HDR_LEN), 0,
               udp_out_hdr(src_port, dst_port, buf.len + UDP_HDR_LEN, 0))

\* udp_checksum(buf, net_if_ip, dst_ip) on the prepared buffer
udp_out_sum(buf, local_ip, dst_ip) ==
    [cs_in |-> buf, sum |-> udp_checksum(buf, local_ip, dst_ip)]

\* slip: the buffer goes to ip_out before the checksum is written, and
\* again after
udp_out_finish_sends_early(v, src_port, dst_ip, dst_port) ==
    [checksum |-> v.sum.checksum, cs_in |-> v.cs_in, cs_out |-> v.sum.buf,
     checksum_runs |-> 1,
     tx |-> <<[buf |-> BufBytes(v.sum.buf),
               dst_ip |-> dst_ip, protocol |-> NET_PROTOCOL_UDP],
              [buf |-> BufBytes(BufWriteAt(v.sum.buf, 0,
                           udp_out_hdr(src_port, dst_port, v.sum.buf.len,
                                       v.sum.checksum))),
               dst_ip |-> dst_ip, protocol |-> NET_PROTOCOL_UDP]>>]

\* slip: a computed checksum of zero is sent as 0xFFFF
udp_out_finish_zero_as_ones(v, src_port, dst_ip, dst_port) ==
    [checksum |-> v.sum.checksum, cs_in |-> v.cs_in, cs_out |-> v.sum.buf,
     checksum_runs |-> 1,
     tx |-> <<[buf |-> BufBytes(BufWriteAt(v.sum.buf, 0,
                           udp_out_hdr(src_port, dst_port, v.sum.buf.len,
                                       IF v.sum.checksum = 0 THEN 65535
                                       ELSE v.sum.checksum))),
               dst_ip |-> dst_ip, protocol |-> NET_PROTOCOL_UDP]>>]

\* the header written again with the checksum; ip_out(buf, dst_ip, UDP)
udp_out_finish(v, src_port, dst_ip, dst_port) ==
    [checksum |-> v.sum.checksum, cs_in |-> v.cs_in, cs_out |-> v.sum.buf,
     checksum_runs |-> 1,
     tx |-> <<[buf |-> BufBytes(BufWriteAt(v.sum.buf, 0,
                           udp_out_hdr(src_port, dst_port, v.sum.buf.len,
                                       v.sum.checksum))),
               dst_ip |-> dst_ip, protocol |-> NET_PROTOCOL_UDP]>>]

\* the checksum computed, the buffer udp_checksum was given and the one it
\* left, and the ip_out calls made
udp_out(buf, src_port, dst_ip, dst_port, local_ip) ==
    udp_out_finish(udp_out_sum(udp_out_prepare(buf, src_port, dst_port),
                               local_ip, dst_ip),
                   src_port, dst_ip, dst_port)

\* ---------------------------------------------------------------- udp_send
\* buf_init(&txbuf, len): len bytes in use, head-room in front of them
TxHead == [i \in 1..(UDP_HDR_LEN + IP_HDR_LEN) |-> TxTail[1]]
buf_init(len) == MkBuf(TxHead, [i \in 1..len |-> TxTail[1]], TxTail)

udp_send(data, len, src_port, dst_ip, dst_port, local_ip) ==
    udp_out(BufWriteAt(buf_init(len), 0, SubSeq(data, 1, len)),
            src_port, dst_ip, dst_port, local_ip)

\* ------------------------------------------------- udp_init / open / close
udp_init == map_init
\* slip: a port that is open keeps its first handler
udp_open_keeps_first(table, port, handler) ==
    IF port \in DOMAIN table THEN [map |-> table, ret |-> 0]
    ELSE map_set(table, port, handler)

\* slip: closing a port empties the table
udp_close_clears_all(table, port) == map_init

\* slip: a port that is already open cannot be opened again
udp_open_rejects_reopen(table, port, handler) ==
    IF port \in DOMAIN table THEN [map |-> table, ret |-> -1]
    ELSE map_set(table, port, handler)

udp_open(table, port, handler) == map_set(table, port, handler)
udp_close(table, port) == map_delete(table, port)

\* ------------------------------------------------------------ network layer
\* the 20-byte IP header that precedes a UDP datagram of n bytes in a
\* receive buffer (identification, flags and header checksum are bytes the
\* UDP layer never interprets)
ip_header(src_ip, dst_ip, n) ==
    <<69, 0, ((IP_HDR_LEN + n) \div 256) % 256, (IP_HDR_LEN + n) % 256,
      0, 1, 64, 0, 64, NET_PROTOCOL_UDP, 171, 205>> \o src_ip \o dst_ip

\* the receive buffer the IP layer hands to udp_in: the IP header lies in
\* front of the datagram
rx_buf(src_ip, dst_ip, udp) == MkBuf(ip_header(src_ip, dst_ip, Len(udp)), udp, RxTail)

\* bit k of byte i of a datagram inverted in transit
FlipBit(bytes, i, k) ==
    [bytes EXCEPT ![i] = IF (@ \div (2 ^ k)) % 2 = 1 THEN @ - 2 ^ k ELSE @ + 2 ^ k]

\* -------------------------------------------------------------------- state
\* The stack is single-threaded and every entry point runs to completion:
\* an operation starts only when no other is under way.  last holds the
\* operation that has just run, with its arguments and everything it did,
\* until control is back with the caller (Return).
VARIABLES
    net_if_ip,   \* the address of this stack's interface
    udp_table,   \* the port table
    last,        \* the operation that has just run, or idle
    opened       \* history: per port, the handler of the latest successful
                 \* udp_open that no udp_close followed, else NULL

vars == <<net_if_ip, udp_table, last, opened>>

Idle == [op |-> "idle"]

Init ==
    /\ net_if_ip = NET_IF_IP
    /\ udp_table = udp_init
    /\ last = Idle
    /\ opened = [p \in Ports |-> NULL]

\* udp_open(port, handler)
Open ==
    /\ last = Idle
    /\ \E port \in Ports, handler \in Handlers :
        LET r == udp_open(udp_table, port, handler)
        IN /\ udp_table' = r.map
           /\ last' = [op |-> "open", port |-> port, handler |-> handler,
                       ret |-> r.ret, before |-> udp_table]
           /\ opened' = IF r.ret = 0 THEN [opened EXCEPT ![port] = handler]
                        ELSE opened
           /\ UNCHANGED net_if_ip

\* udp_close(port)
Close ==
    /\ last = Idle
    /\ \E port \in Ports :
        /\ udp_table' = udp_close(udp_table, port)
        /\ last' = [op |-> "close", port |-> port, before |-> udp_table]
        /\ opened' = [opened EXCEPT ![port] = NULL]
        /\ UNCHANGED net_if_ip

\* udp_send(data, len, src_port, dst_ip, dst_port) on this stack
Send ==
    /\ last = Idle
    /\ \E data \in Payloads, src_port \in SrcPorts, dst_ip \in IPs, dst_port \in Ports :
        /\ last' = [op |-> "send", data |-> data, len |-> Len(data),
                    src_port |-> src_port, dst_ip |-> dst_ip, dst_port |-> dst_port,
                    res |-> udp_send(data, Len(data), src_port, dst_ip, dst_port,
                                     net_if_ip),
                    before |-> udp_table]
        /\ UNCHANGED <<net_if_ip, udp_table, opened>>

\* udp_in on the receive buffer holding the datagram udp that came from src_ip
Inbound(kind, sent, src_ip, udp) ==
    /\ last' = [op |-> "in", kind |-> kind, sent |-> sent, src_ip |-> src_ip,
                buf_in |-> rx_buf(src_ip, net_if_ip, udp),
                res |-> udp_in(rx_buf(src_ip, net_if_ip, udp), src_ip, udp_table,
                               net_if_ip),
                before |-> udp_table]
    /\ udp_table' = udp_in_table(udp_table, rx_buf(src_ip, net_if_ip, udp))
    /\ UNCHANGED <<net_if_ip, opened>>

\* what the stack at src_ip transmits for udp_send(data, len, src_port,
\* net_if_ip, dst_port)
Sent(src_ip, data, src_port, dst_port) ==
    [data |-> data, len |-> Len(data), src_port |-> src_port, dst_port |-> dst_port,
     out |-> udp_send(data, Len(data), src_port, net_if_ip, dst_port, src_ip)]

\* the datagram of a transmission
Datagram(sent) == sent.out.tx[1].buf

\* a datagram sent to this stack arrives as transmitted
RecvSent ==
    /\ last = Idle
    /\ \E src_ip \in IPs, data \in Payloads, src_port \in SrcPorts, dst_port \in Ports :
        Inbound("sent", Sent(src_ip, data, src_port, dst_port), src_ip,
                Datagram(Sent(src_ip, data, src_port, dst_port)))

\* a datagram sent to this stack arrives with one bit inverted
RecvFlipped ==
    /\ last = Idle
    /\ \E src_ip \in IPs, data \in Payloads, src_port \in SrcPorts, dst_port \in Ports :
        \E i \in 1..(UDP_HDR_LEN + Len(data)), k \in 0..7 :
            Inbound("flipped", Sent(src_ip, data, src_port, dst_port), src_ip,
                    FlipBit(Datagram(Sent(src_ip, data, src_port, dst_port)), i, k))

\* values a peer may put in the length field of a datagram it builds by
\* hand: a bare header, and the largest value
CraftedLens == {UDP_HDR_LEN, 65535}

\* a datagram built by hand at src_ip: source and destination port, the
\* length field total_len whatever the payload, the checksum field zero
CraftedZeroed(data, src_port, dst_port, total_len) ==
    Store16(swap16(src_port)) \o Store16(swap16(dst_port))
    \o Store16(swap16(total_len)) \o Store16(0) \o data

\* the same with the checksum udp_in will compute for it
Crafted(src_ip, data, src_port, dst_port, total_len) ==
    SubSeq(CraftedZeroed(data, src_port, dst_port, total_len), 1, 6)
    \o Store16(udp_checksum(rx_buf(src_ip, net_if_ip,
                                   CraftedZeroed(data, src_port, dst_port, total_len)),
                            src_ip, net_if_ip).checksum)
    \o data

\* a datagram arrives whose length field does not describe it
RecvCrafted ==
    /\ last = Idle
    /\ \E src_ip \in IPs, data \in Payloads, src_port \in SrcPorts, dst_port \in Ports :
        \E total_len \in CraftedLens :
            Inbound("crafted",
                    [data |-> data, len |-> Len(data), src_port |-> src_port,
                     dst_port |-> dst_port, total_len |-> total_len],
                    src_ip, Crafted(src_ip, data, src_port, dst_port, total_len))

\* a buffer shorter than a UDP header arrives
RecvShort ==
    /\ last = Idle
    /\ \E src_ip \in IPs, udp \in ShortBufs :
        Inbound("short", udp, src_ip, udp)

\* control is back with the caller
Return ==
    /\ last # Idle
    /\ last' = Idle
    /\ UNCHANGED <<net_if_ip, udp_table, opened>>

Next ==
    \/ Open \/ Close \/ Send
    \/ RecvSent \/ RecvFlipped \/ RecvShort \/ RecvCrafted
    \/ Return

Spec == Init /\ [][Next]_vars

\* ================================================================== claims
\* udp_in has just run on a datagram that arrived as udp_send produced it
InSent == last.op = "in" /\ last.kind = "sent"
\* udp_in has just run on a datagram with one bit inverted in transit
InFlipped == last.op = "in" /\ last.kind = "flipped"
\* the IP header bytes in front of the datagram in a receive buffer
IpHeaderOf(buf) == SubSeq(buf.payload, buf.data - IP_HDR_LEN, buf.data - 1)

\* C1: a datagram that udp_send(D, L, sp, B, p) produced on the stack with
\* address A, handed unmodified to udp_in(buf, A) on stack B where port p is
\* open with handler h, makes exactly one handler call: to h, with payload
\* bytes D, length L and source address A.
C1_EndToEndDelivery ==
    (InSent /\ map_get(last.before, last.sent.dst_port) # NULL) =>
        /\ Len(last.res.calls) = 1
        /\ last.res.calls[1].handler = map_get(last.before, last.sent.dst_port)
        /\ last.res.calls[1].data = last.sent.data
        /\ last.res.calls[1].len = last.sent.len
        /\ last.res.calls[1].src_ip = last.src_ip

C1_Witness ==
    /\ InSent
    /\ last.src_ip # net_if_ip
    /\ last.sent.data = <<104, 105>>
    /\ last.sent.dst_port = 53
    /\ last.res.outcome = "dispatched"
    /\ last.res.calls[1].data = <<104, 105>>

\* C2: in the end-to-end case the source port the handler receives is the
\* source_port value that was given to udp_send.
C2_SourcePortDelivered ==
    (InSent /\ last.res.outcome = "dispatched") =>
        last.res.calls[1].src_port = last.sent.src_port

\* C3: the checksum udp_send writes (local address as source) is the value
\* udp_in recomputes at the destination (sender address as source), for
\* payloads of odd, even and zero length, so an unmodified datagram is never
\* dropped as a checksum mismatch.
C3_ChecksumRoundTrip ==
    InSent =>
        /\ last.res.checksum_runs = 1
        /\ last.res.saved = last.sent.out.checksum
        /\ last.res.computed = last.sent.out.checksum
        /\ last.res.outcome # "dropped_checksum"

C3_Witness ==
    /\ InSent
    /\ last.src_ip # net_if_ip
    /\ last.sent.len % 2 = 1
    /\ last.res.computed = last.sent.out.checksum
    /\ last.res.outcome \in {"dispatched", "unreachable_notified"}

\* C4: a datagram from udp_send with any one bit inverted, in the header
\* (checksum field included) or in the payload, fails the checksum
\* validation of udp_in: no handler call, no icmp_unreachable call.
C4_BitFlipDetected ==
    InFlipped =>
        /\ last.res.outcome = "dropped_checksum"
        /\ last.res.calls = <<>>
        /\ last.res.icmp = <<>>

\* a bit of the payload was inverted, with a handler open for the port
C4_Witness ==
    /\ InFlipped
    /\ last.sent.len > 0
    /\ SubSeq(last.buf_in.payload, last.buf_in.data, last.buf_in.data + UDP_HDR_LEN - 1)
         = SubSeq(Datagram(last.sent), 1, UDP_HDR_LEN)
    /\ map_get(last.before, last.sent.dst_port) # NULL
    /\ last.res.outcome = "dropped_checksum"

\* udp_checksum has just run, in udp_in or in udp_send
ChecksumRan ==
    /\ last.op \in {"in", "send"}
    /\ last.res.checksum_runs = 1

\* C5: udp_checksum leaves the buffer's start, its length and every byte
\* within that length as they were on entry, for odd and even lengths.
C5_ChecksumPurity ==
    ChecksumRan =>
        /\ last.res.cs_out.data = last.res.cs_in.data
        /\ last.res.cs_out.len = last.res.cs_in.len
        /\ BufBytes(last.res.cs_out) = BufBytes(last.res.cs_in)

\* odd length: the padding byte was written behind the data
C5_Witness ==
    /\ ChecksumRan
    /\ last.res.cs_in.len % 2 = 1
    /\ last.res.cs_in.payload # last.res.cs_out.payload
    /\ BufBytes(last.res.cs_out) = BufBytes(last.res.cs_in)

\* C6: a datagram of at least 8 bytes with a valid checksum for a port with
\* no handler makes exactly one icmp_unreachable call, code port unreachable,
\* addressed to the sender, and no handler call; the buffer of that call is
\* the IP header bytes that preceded the UDP header, unchanged, followed by
\* the UDP header with the received checksum and the payload.
C6_UnreachablePort ==
    (InSent /\ map_get(last.before, last.sent.dst_port) = NULL) =>
        /\ last.res.calls = <<>>
        /\ Len(last.res.icmp) = 1
        /\ last.res.icmp[1].code = ICMP_CODE_PORT_UNREACH
        /\ last.res.icmp[1].dst_ip = last.src_ip
        /\ last.res.icmp[1].buf = IpHeaderOf(last.buf_in) \o Datagram(last.sent)

C6_Witness ==
    /\ InSent
    /\ last.sent.dst_port = 7
    /\ last.before # map_init
    /\ last.res.outcome = "unreachable_notified"
    /\ Len(last.res.icmp[1].buf) = IP_HDR_LEN + UDP_HDR_LEN + last.sent.len

\* C7: when the checksum udp_in recomputes differs from the one in the
\* header, no handler is called and icmp_unreachable is not called, with or
\* without a handler for the destination port.
C7_MismatchSilentDrop ==
    (last.op = "in" /\ last.res.checksum_runs = 1
       /\ last.res.saved # last.res.computed) =>
        /\ last.res.calls = <<>>
        /\ last.res.icmp = <<>>

\* a mismatch on a datagram whose destination port has a handler
C7_Witness ==
    /\ last.op = "in"
    /\ last.res.checksum_runs = 1
    /\ last.res.saved # last.res.computed
    /\ map_get(last.before, udp_in_dst_port(last.buf_in)) # NULL
    /\ last.res.calls = <<>>

\* C8: a buffer of 0..7 bytes given to udp_in, whatever the table holds,
\* makes no handler call and no icmp_unreachable call, does not run
\* udp_checksum, and is left with its length and bytes unchanged.
C8_ShortSilentDrop ==
    (last.op = "in" /\ last.buf_in.len < UDP_HDR_LEN) =>
        /\ last.res.calls = <<>>
        /\ last.res.icmp = <<>>
        /\ last.res.checksum_runs = 0
        /\ last.res.buf = last.buf_in

C8_Witness ==
    /\ last.op = "in"
    /\ last.buf_in.len = UDP_HDR_LEN - 1
    /\ last.before # map_init
    /\ last.res.outcome = "dropped_short"

\* C9: after any sequence of successful udp_open and udp_close calls the
\* table holds, per port, the handler of the latest udp_open of that port
\* that no udp_close followed, and nothing otherwise; a valid datagram is
\* dispatched to that handler, and to none when there is none.
C9_LastWriteWins ==
    /\ \A p \in Ports : map_get(udp_table, p) = opened[p]
    /\ (last.op = "in" /\ last.res.outcome = "dispatched") =>
          /\ Len(last.res.calls) = 1
          /\ last.res.dst_port \in Ports
          /\ last.res.calls[1].handler = opened[last.res.dst_port]
    /\ (last.op = "in" /\ last.res.outcome = "unreachable_notified"
          /\ last.res.dst_port \in Ports) =>
          opened[last.res.dst_port] = NULL

\* a port opened again with another handler
C9_Witness ==
    /\ last.op = "open"
    /\ last.ret = 0
    /\ last.port \in DOMAIN last.before
    /\ last.before[last.port] # last.handler
    /\ udp_table[last.port] = last.handler

\* C10: udp_close(p) changes the entry of port p only; on a port with no
\* entry it leaves the whole table unchanged.
C10_CloseFrame ==
    last.op = "close" =>
        /\ \A q \in Ports \ {last.port} :
              map_get(udp_table, q) = map_get(last.before, q)
        /\ map_get(udp_table, last.port) = NULL
        /\ (last.port \notin DOMAIN last.before => udp_table = last.before)

\* a port with no entry closed while another port is open
C10_Witness ==
    /\ last.op = "close"
    /\ last.port \notin DOMAIN last.before
    /\ last.before # map_init
    /\ udp_table = last.before

\* a 16-bit value as it travels on the wire: high byte first
BE16(v) == <<(v \div 256) % 256, v % 256>>

\* C11: the buffer udp_send(D, L, sp, ip, dp) hands to ip_out is exactly
\* L + 8 bytes: source port and destination port (2 bytes each, big-endian),
\* the length L + 8 (2 bytes, big-endian), the checksum (2 bytes), then the
\* L payload bytes; no pseudo-header byte and no padding byte is part of it.
C11_DatagramLayout ==
    last.op = "send" =>
        /\ Len(last.res.tx) >= 1
        /\ Len(last.res.tx[1].buf) = last.len + UDP_HDR_LEN
        /\ SubSeq(last.res.tx[1].buf, 1, 6)
             = BE16(last.src_port) \o BE16(last.dst_port)
               \o BE16(last.len + UDP_HDR_LEN)
        /\ SubSeq(last.res.tx[1].buf, 7, 8) = Store16(last.res.checksum)
        /\ SubSeq(last.res.tx[1].buf, UDP_HDR_LEN + 1, Len(last.res.tx[1].buf))
             = last.data

\* an odd-length send: the padding byte was written behind the payload
\* while the checksum ran, and 9 bytes are transmitted
C11_Witness ==
    /\ last.op = "send"
    /\ last.len = 1
    /\ last.src_port = 12345
    /\ last.res.cs_in.payload # last.res.cs_out.payload
    /\ Len(last.res.tx[1].buf) = UDP_HDR_LEN + 1
    /\ SubSeq(last.res.tx[1].buf, 1, 6) = <<48, 57>> \o BE16(last.dst_port) \o <<0, 9>>

\* C12: udp_send makes exactly one ip_out call, with protocol 17 and the
\* destination address it was given, on the buffer that already carries the
\* computed checksum; it makes no second call and leaves the port table as
\* it was.
C12_FireAndForget ==
    last.op = "send" =>
        /\ Len(last.res.tx) = 1
        /\ last.res.tx[1].protocol = 17
        /\ last.res.tx[1].dst_ip = last.dst_ip
        /\ last.res.checksum_runs = 1
        /\ Load16(SubSeq(last.res.tx[1].buf, 7, 8)) = last.res.checksum
        /\ udp_table = last.before

\* a send to the peer with a port open: one transmission, a non-zero
\* checksum in it, the table untouched
C12_Witness ==
    /\ last.op = "send"
    /\ last.dst_ip # net_if_ip
    /\ last.before # map_init
    /\ Len(last.res.tx) = 1
    /\ last.res.checksum # 0
    /\ Load16(SubSeq(last.res.tx[1].buf, 7, 8)) = last.res.checksum
    /\ udp_table = last.before

\* the value udp_checksum returned in the operation that has just run, and
\* the addresses it was given
ChecksumValue == IF last.op = "in" THEN last.res.computed ELSE last.res.checksum
ChecksumSrc == IF last.op = "in" THEN last.src_ip ELSE net_if_ip
ChecksumDst == IF last.op = "in" THEN net_if_ip ELSE last.dst_ip

\* the pseudo header of a datagram of n bytes, as a byte sequence
PseudoHeader(src_ip, dst_ip, n) == src_ip \o dst_ip \o <<0, 17>> \o BE16(n)

\* C13: when the byte count of UDP header plus payload is odd, the value
\* udp_checksum returns is checksum16 applied to an even-length region: the
\* pseudo header, the header and payload bytes, and one zero byte at the tail.
C13_OddPaddingEquivalence ==
    (ChecksumRan /\ last.res.cs_in.len % 2 = 1) =>
        /\ Len(PseudoHeader(ChecksumSrc, ChecksumDst, last.res.cs_in.len)
               \o BufBytes(last.res.cs_in) \o <<0>>) % 2 = 0
        /\ ChecksumValue
             = checksum16(PseudoHeader(ChecksumSrc, ChecksumDst, last.res.cs_in.len)
                          \o BufBytes(last.res.cs_in) \o <<0>>)

\* a one-byte payload from the peer: 9 bytes, with the byte behind them not
\* zero before the call
C13_Witness ==
    /\ InSent
    /\ last.src_ip # net_if_ip
    /\ last.res.cs_in.len = UDP_HDR_LEN + 1
    /\ last.res.cs_in.payload[last.res.cs_in.data + last.res.cs_in.len] # 0
    /\ last.res.cs_out.payload[last.res.cs_in.data + last.res.cs_in.len] = 0
    /\ last.res.computed = last.res.saved

\* the Internet checksum of a byte sequence of even length, on 16-bit
\* big-endian words
RECURSIVE SumWordsBE(_, _)
SumWordsBE(b, i) ==
    IF i > Len(b) THEN 0 ELSE 256 * b[i] + b[i + 1] + SumWordsBE(b, i + 2)

InternetChecksum(b) == 65535 - Fold16(SumWordsBE(b, 1))

\* C16: for a buffer of n bytes (UDP header and payload) and any pair of
\* addresses, udp_checksum returns the one's-complement 16-bit checksum of
\* source address, destination address, a zero byte, protocol 17, n as a
\* big-endian 16-bit value, the n bytes, and one zero byte when n is odd;
\* the length in the pseudo header is n, the count before padding.
C16_PseudoHeader ==
    ChecksumRan =>
        Store16(ChecksumValue)
          = BE16(InternetChecksum(
                PseudoHeader(ChecksumSrc, ChecksumDst, last.res.cs_in.len)
                \o BufBytes(last.res.cs_in)
                \o (IF last.res.cs_in.len % 2 = 1 THEN <<0>> ELSE <<>>)))

\* "hi" from 10.0.0.255:12345 to 192.168.1.1:53: checksum bytes 0x9A 0x5A
C16_Witness ==
    /\ InSent
    /\ last.src_ip = <<10, 0, 0, 255>>
    /\ net_if_ip = <<192, 168, 1, 1>>
    /\ BufBytes(last.res.cs_in) = <<48, 57, 0, 53, 0, 10, 0, 0, 104, 105>>
    /\ Store16(last.res.computed) = <<154, 90>>

\* C14: udp_open(port, handler) returns failure only when the table is full
\* and port has no entry in it, and then leaves the table as it was; in
\* every other state it returns success and the table holds handler for
\* port, installed or overwritten, with all other entries as before.
C14_OpenFailsOnlyWhenFull ==
    last.op = "open" =>
        /\ last.ret \in {0, -1}
        /\ last.ret = -1 <=>
              /\ last.port \notin DOMAIN last.before
              /\ Cardinality(DOMAIN last.before) >= MapMaxSize
        /\ last.ret = -1 => udp_table = last.before
        /\ last.ret = 0 =>
              /\ map_get(udp_table, last.port) = last.handler
              /\ \A q \in Ports \ {last.port} :
                    map_get(udp_table, q) = map_get(last.before, q)

\* the table is full and a port with no entry is opened: failure
C14_Witness ==
    /\ last.op = "open"
    /\ Cardinality(DOMAIN last.before) = MapMaxSize
    /\ last.port \notin DOMAIN last.before
    /\ last.ret = -1
    /\ udp_table = last.before

\* the table is full and a port that has an entry is opened again: success
C14_WitnessOverwrite ==
    /\ last.op = "open"
    /\ Cardinality(DOMAIN last.before) = MapMaxSize
    /\ last.port \in DOMAIN last.before
    /\ last.before[last.port] # last.handler
    /\ last.ret = 0
    /\ udp_table[last.port] = last.handler

\* C15: every udp_in call ends in exactly one of dropped_short,
\* dropped_checksum, unreachable_notified and dispatched; it calls at most
\* one handler and icmp_unreachable at most once, never both; a handler call
\* or an icmp_unreachable call is made only when the buffer held at least 8
\* bytes and the recomputed checksum equalled the received one; all of it
\* has happened when udp_in returns.
C15_InboundOutcome ==
    last.op = "in" =>
        /\ last.res.outcome \in {"dropped_short", "dropped_checksum",
                                 "unreachable_notified", "dispatched"}
        /\ last.res.outcome = "dropped_short" <=> last.buf_in.len < UDP_HDR_LEN
        /\ last.res.outcome = "dropped_checksum" <=>
              /\ last.buf_in.len >= UDP_HDR_LEN
              /\ last.res.saved # last.res.computed
        /\ last.res.outcome = "unreachable_notified" <=> Len(last.res.icmp) = 1
        /\ last.res.outcome = "dispatched" <=> Len(last.res.calls) = 1
        /\ Len(last.res.calls) + Len(last.res.icmp) <= 1
        /\ (last.res.calls # <<>> \/ last.res.icmp # <<>>) =>
              /\ last.buf_in.len >= UDP_HDR_LEN
              /\ last.res.checksum_runs = 1
              /\ last.res.saved = last.res.computed

\* a valid datagram this stack sent to itself, for a port with no handler
\* while another port has one: the notification and no handler call
C15_Witness ==
    /\ last.op = "in"
    /\ last.src_ip = net_if_ip
    /\ last.buf_in.len > UDP_HDR_LEN
    /\ last.before # map_init
    /\ last.res.checksum_runs = 1
    /\ last.res.saved = last.res.computed
    /\ last.res.outcome = "unreachable_notified"
    /\ Len(last.res.icmp) = 1
    /\ last.res.calls = <<>>

\* the datagram of the udp_send that has just run, with its checksum field
\* zero, in a transmit buffer
SendZeroed ==
    MkBuf(TxHead,
          BE16(last.src_port) \o BE16(last.dst_port)
          \o BE16(last.len + UDP_HDR_LEN) \o <<0, 0>> \o last.data,
          TxTail)

\* C17: the checksum field of a transmitted datagram is the value
\* udp_checksum returns for the datagram with its checksum field zero, the
\* interface address as source and the given destination address, written
\* as it is: a computed 0 is transmitted as 0, not as 0xFFFF.
C17_ChecksumField ==
    last.op = "send" =>
        /\ Len(last.res.tx) >= 1
        /\ Load16(SubSeq(last.res.tx[1].buf, 7, 8))
             = udp_checksum(SendZeroed, net_if_ip, last.dst_ip).checksum
        /\ BufBytes(last.res.cs_in) = BufBytes(SendZeroed)
        /\ last.res.checksum = 0 => SubSeq(last.res.tx[1].buf, 7, 8) = <<0, 0>>

\* a send whose computed checksum is zero
C17_Witness ==
    /\ last.op = "send"
    /\ last.data = ZeroSumPayload
    /\ last.src_port = 12345
    /\ last.dst_port = 53
    /\ last.dst_ip = <<10, 0, 0, 255>>
    /\ last.res.checksum = 0
    /\ last.res.tx[1].buf = <<48, 57, 0, 53, 0, 10, 0, 0, 2, 196>>

\* C18: udp_in leaves the port table as it was, whatever the datagram
\* (short, corrupted, for a port with no handler, or dispatched); a step
\* that changes the table is a udp_open or a udp_close.
C18_InboundKeepsTable ==
    /\ [](last.op = "in" => udp_table = last.before)
    /\ [][udp_table' # udp_table => last'.op \in {"open", "close"}]_vars

\* a datagram dispatched while the table is full: the table is as before
C18_Witness ==
    /\ last.op = "in"
    /\ last.res.outcome = "dispatched"
    /\ Cardinality(DOMAIN last.before) = MapMaxSize
    /\ udp_table = last.before
    /\ udp_table[last.res.dst_port] = last.res.calls[1].handler

\* C19: when udp_in drops a datagram because the recomputed checksum differs
\* from the received one, the buffer has the start and the length it had on
\* entry, the IP header in front of it and every byte of it are as on entry,
\* except the two bytes of the checksum field, which are zero.
C19_BufferAfterMismatch ==
    (last.op = "in" /\ last.res.outcome = "dropped_checksum") =>
        /\ last.res.buf.data = last.buf_in.data
        /\ last.res.buf.len = last.buf_in.len
        /\ IpHeaderOf(last.res.buf) = IpHeaderOf(last.buf_in)
        /\ BufBytes(last.res.buf)
             = SubSeq(BufBytes(last.buf_in), 1, 6) \o <<0, 0>>
               \o SubSeq(BufBytes(last.buf_in), UDP_HDR_LEN + 1, last.buf_in.len)

\* a corrupted datagram of odd length whose received checksum was not zero
C19_Witness ==
    /\ InFlipped
    /\ last.buf_in.len % 2 = 1
    /\ last.res.outcome = "dropped_checksum"
    /\ last.res.saved # 0
    /\ BufReadAt(last.buf_in, 6, 2) # <<0, 0>>
    /\ BufReadAt(last.res.buf, 6, 2) = <<0, 0>>

\* C20: udp_in does not compare the length field of the header with the
\* length of the buffer: a datagram of at least 8 bytes whose checksum
\* matches, for a port with a handler, is delivered with all buffer bytes
\* behind the first 8 as payload and the buffer length minus 8 as length,
\* whatever the length field holds.
C20_LengthFromBuffer ==
    (/\ last.op = "in"
     /\ last.buf_in.len >= UDP_HDR_LEN
     /\ last.res.saved = last.res.computed
     /\ map_get(last.before, udp_in_dst_port(last.buf_in)) # NULL) =>
        /\ Len(last.res.calls) = 1
        /\ last.res.calls[1].data
             = SubSeq(BufBytes(last.buf_in), UDP_HDR_LEN + 1, last.buf_in.len)
        /\ last.res.calls[1].len = last.buf_in.len - UDP_HDR_LEN

\* a 10-byte datagram whose header says 8: both payload bytes are delivered
C20_Witness ==
    /\ last.op = "in"
    /\ last.kind = "crafted"
    /\ last.buf_in.len = UDP_HDR_LEN + 2
    /\ BufReadAt(last.buf_in, 4, 2) = <<0, 8>>
    /\ last.res.outcome = "dispatched"
    /\ last.res.calls[1].len = 2
    /\ last.res.calls[1].data = last.sent.data

====
